---- MODULE Spec2Model ----
(***************************************************************************)
(* VHDL documentation parser (vhdl_parser.py): the grammar table           *)
(* vhdl_tokens, the table-driven lexer that runs it, the action            *)
(* interpreter parse_vhdl, and the VhdlExtractor facade.                   *)
(*                                                                         *)
(* The input text is a sequence of text units.  A lexeme is a chunk of     *)
(* source text (one unit, or two for a port type with its opening          *)
(* parenthesis); the text is chosen lexeme by lexeme as the lexer          *)
(* advances, which explores every text built from the lexeme alphabet.     *)
(* White space between lexemes belongs to the lexemes, and no lexeme of a  *)
(* text runs on from the one before it.  The lexer itself                  *)
(* (minilexer.MiniLexer) is imported by vhdl_parser.py; it is modelled     *)
(* from section 4.1 of the specification.                                  *)
(***************************************************************************)
EXTENDS Integers, Sequences, FiniteSets, TLC

\* Python's None
None == "None"

\* ------------------------------------------------------------------ bounds
\* Longest input text, in text units.
MaxLen == 8
MaxDocLen == 5
MaxDeclLen == 4
MaxGenericLen == 7
MaxPortLen == 8
MaxNest == 3
MaxTail == 6
MaxPackageTail == 3
MaxAgainTail == 6

\* ------------------------------------------------------- the input alphabet
Names == {"a", "b"}
TypeNames == {"integer", "bit"}
Words == Names \cup TypeNames
SubprogramNames == {"f"}
UnitNames == {"c"}
Modes == {"in", "out"}
ParamClasses == {"signal "}
Defaults == {"8"}
MetaTexts == {" m1", " m2"}
SectionLabels == {"s"}
TypeKeywords == {"array", "file", "access", "record", "range"}

\* A lexeme: its kind and the texts a pattern can capture from it.
Lx(k, g) == [k |-> k, g |-> g]

Lexeme ==
       {Lx("package_is", <<n>>) : n \in UnitNames}
  \cup {Lx("function_lp", <<n>>) : n \in SubprogramNames}
  \cup {Lx("procedure_lp", <<n>>) : n \in SubprogramNames}
  \cup {Lx("function", <<n>>) : n \in SubprogramNames}
  \cup {Lx("component_is", <<n>>) : n \in UnitNames}
  \cup {Lx("subtype", <<n, b>>) : n \in {"a"}, b \in {"b"}}
  \cup {Lx("constant", <<n, b>>) : n \in {"a"}, b \in {"integer"}}
  \cup {Lx("type_is", <<n>>) : n \in {"a"}}
  \cup {Lx(k, <<>>) : k \in TypeKeywords}
  \cup {Lx(k, <<>>) : k \in {"end_package", "comment", "(", ")", ";", ",", ":",
                             "rp_semi", "rp_is", "generic_lp", "port_lp",
                             "end_component", "junk"}}
  \cup {Lx("metacomment", <<t>>) : t \in MetaTexts}
  \cup {Lx("section", <<l>>) : l \in SectionLabels}
  \cup {Lx("word", <<w>>) : w \in Words}
  \cup {Lx("class_word", <<c, w>>) : c \in ParamClasses, w \in {"a"}}
  \cup {Lx("mode_word", <<m, w>>) : m \in Modes, w \in TypeNames}
  \cup {Lx("mode_word_lp", <<m, w>>) : m \in {"in"}, w \in {"bit"}}
  \cup {Lx("default", <<v>>) : v \in Defaults}
  \cup {Lx(k, <<t>>) : k \in {"rp_return_semi", "rp_return_is", "return_semi",
                              "return_is"}, t \in {"integer"}}

LParen == Lx("(", <<>>)
RParen == Lx(")", <<>>)
Junk == Lx("junk", <<>>)

\* The text units of a lexeme: a port type followed by the opening parenthesis
\* of its range is the type and then the parenthesis.
Units(lx) ==
  IF lx.k = "mode_word_lp" THEN <<Lx("mode_word", lx.g), LParen>> ELSE <<lx>>

\* ------------------------------------------------------- the grammar table
Rule(p, a, n) == [pat |-> p, action |-> a, new_state |-> n]

\* A ");" of a generic list that closes one level only.
EndGenericRulePopOne == Rule("rp_semi", "end_generic", "#pop")

\* (r'\)\s*;', 'end_generic', '#pop:2')
EndGenericRule == Rule("rp_semi", "end_generic", "#pop:2")

vhdl_tokens ==
  [ root |-> <<
      Rule("package", "package", "package"),
      Rule("function_lp", "function", "param_list"),
      Rule("procedure_lp", "procedure", "param_list"),
      Rule("function", "function", "simple_func"),
      Rule("component", "component", "component"),
      Rule("comment", None, None) >>,
    package |-> <<
      Rule("function_lp", "function", "param_list"),
      Rule("procedure_lp", "procedure", "param_list"),
      Rule("function", "function", "simple_func"),
      Rule("component", "component", "component"),
      Rule("subtype", "subtype", None),
      Rule("constant", "constant", None),
      Rule("type", "type", "type_decl"),
      Rule("end_package", None, "#pop"),
      Rule("metacomment", "metacomment", None),
      Rule("comment", None, None) >>,
    type_decl |-> <<
      Rule("array", "array_type", "#pop"),
      Rule("file", "file_type", "#pop"),
      Rule("access", "access_type", "#pop"),
      Rule("record", "record_type", "#pop"),
      Rule("range", "range_type", "#pop"),
      Rule("lparen", "enum_type", "#pop"),
      Rule("semi", "incomplete_type", "#pop"),
      Rule("comment", None, None) >>,
    param_list |-> <<
      Rule("param", "param", None),
      Rule("comma", None, None),
      Rule("colon", None, "param_type"),
      Rule("comment", None, None) >>,
    param_type |-> <<
      Rule("param_type", "param_type", None),
      Rule("ws_semi", None, "#pop"),
      Rule("param_default", "param_default", None),
      Rule("rp_return_semi", "end_subprogram", "#pop:2"),
      Rule("rp_return_is", None, "#pop:2"),
      Rule("comment", None, None) >>,
    simple_func |-> <<
      Rule("return_semi", "end_subprogram", "#pop"),
      Rule("return_is", None, "#pop"),
      Rule("comment", None, None) >>,
    component |-> <<
      Rule("generic_lp", None, "generic_list"),
      Rule("port_lp", None, "port_list"),
      Rule("end_component", "end_component", "#pop"),
      Rule("comment", None, None) >>,
    generic_list |-> <<
      Rule("word", "generic_param", None),
      Rule("comma", None, None),
      Rule("colon", None, "generic_param_type"),
      Rule("metacomment", "metacomment", None),
      Rule("comment", None, None) >>,
    generic_param_type |-> <<
      Rule("word", "generic_param_type", None),
      Rule("ws_semi", None, "#pop"),
      Rule("default", "generic_param_default", None),
      EndGenericRule,
      Rule("metacomment", "metacomment", None),
      Rule("comment", None, None) >>,
    port_list |-> <<
      Rule("word", "port_param", None),
      Rule("comma", None, None),
      Rule("colon", None, "port_param_type"),
      Rule("section_meta", "section_meta", None),
      Rule("metacomment", "metacomment", None),
      Rule("comment", None, None) >>,
    port_param_type |-> <<
      Rule("mode_type_lp", "port_array_param_type", "array_range"),
      Rule("mode_type", "port_param_type", None),
      Rule("ws_semi", None, "#pop"),
      Rule("default", "port_param_default", None),
      Rule("rp_semi", "end_port", "#pop:2"),
      Rule("metacomment", "metacomment", None),
      Rule("comment", None, None) >>,
    array_range |-> <<
      Rule("lparen", "open_paren", "nested_parens"),
      Rule("rparen", "array_range_end", "#pop") >>,
    nested_parens |-> <<
      Rule("lparen", "open_paren", "nested_parens"),
      Rule("rparen", "close_paren", "#pop") >> ]

\* ------------------------------------------------------------ the patterns
\* Lexemes that begin with a word, which \s*(\w+)\s* matches at least in part.
WordStart ==
  {"package_is", "function_lp", "procedure_lp", "function", "component_is",
   "subtype", "constant", "type_is", "end_package", "word", "class_word",
   "mode_word", "mode_word_lp", "generic_lp", "port_lp", "end_component",
   "return_semi", "return_is"} \cup TypeKeywords

\* The lexeme kinds a pattern matches at the cursor, wholly or as a prefix.
MatchKinds(pat) ==
  CASE pat = "package" -> {"package_is"}
    [] pat = "function" -> {"function", "function_lp"}
    [] pat = "component" -> {"component_is"}
    [] pat = "comment" -> {"comment", "metacomment", "section"}
    [] pat = "metacomment" -> {"metacomment", "section"}
    [] pat = "section_meta" -> {"section"}
    [] pat = "type" -> {"type_is"}
    [] pat = "lparen" -> {"("}
    [] pat = "rparen" -> {")", "rp_semi", "rp_return_semi", "rp_is", "rp_return_is"}
    [] pat \in {"semi", "ws_semi"} -> {";"}
    [] pat = "comma" -> {","}
    [] pat = "colon" -> {":", "default"}
    [] pat \in {"param", "param_type", "word"} -> WordStart
    [] pat = "mode_type_lp" -> {"mode_word_lp"}
    [] pat = "mode_type" -> {"mode_word", "mode_word_lp"}
    [] pat \in {"param_default", "default"} -> {"default"}
    [] pat = "rp_return_semi" -> {"rp_semi", "rp_return_semi"}
    [] pat = "rp_return_is" -> {"rp_is", "rp_return_is"}
    [] OTHER -> {pat}

\* The lexeme kinds a pattern matches to their end.
WholeKinds(pat) ==
  CASE pat = "function" -> {"function"}
    [] pat = "rparen" -> {")"}
    [] pat = "colon" -> {":"}
    [] pat = "param" -> {"word", "class_word"} \cup TypeKeywords
    [] pat = "param_type" -> {"word", "mode_word"} \cup TypeKeywords
    [] pat = "word" -> {"word"} \cup TypeKeywords
    [] pat = "mode_type" -> {"mode_word"}
    [] OTHER -> MatchKinds(pat)

Braced(l) == IF l = "s" THEN " {{s}}" ELSE l
WithSpace(m) == IF m = "in" THEN "in " ELSE IF m = "out" THEN "out " ELSE m

\* m.groups() of a pattern matched on a lexeme.
Groups(pat, lx) ==
  CASE pat = "comment" -> <<>>
    [] pat = "metacomment" /\ lx.k = "section" -> <<Braced(lx.g[1])>>
    [] pat = "param" /\ lx.k = "word" -> <<None, lx.g[1]>>
    [] pat = "param_type" /\ lx.k = "word" -> <<None, lx.g[1]>>
    [] pat \in {"param", "param_type"} /\ lx.k \in TypeKeywords -> <<None, lx.k>>
    [] pat = "word" /\ lx.k \in TypeKeywords -> <<lx.k>>
    [] pat = "param_type" /\ lx.k = "mode_word" -> <<WithSpace(lx.g[1]), lx.g[2]>>
    [] pat \in {"rp_return_semi", "rp_return_is"} /\ lx.k \in {"rp_semi", "rp_is"} -> <<None>>
    [] OTHER -> lx.g

\* str.strip()
Strip(s) == IF s = "in " THEN "in" ELSE IF s = "out " THEN "out" ELSE s

\* ------------------------------------------------------------- the inputs
\* The input texts explored: for each family, every text of at most maxlen
\* units that starts with (a prefix of) the family's prefix and goes on with
\* lexemes of the family.
Family(prefix, lexemes, maxlen) ==
  [prefix |-> prefix, lexemes |-> lexemes, maxlen |-> maxlen]

Word(w) == Lx("word", <<w>>)
Meta(t) == Lx("metacomment", <<t>>)
Comma == Lx(",", <<>>)
Colon == Lx(":", <<>>)
Semi == Lx(";", <<>>)
RpSemi == Lx("rp_semi", <<>>)
PackageIs == Lx("package_is", <<"c">>)
FunctionLp == Lx("function_lp", <<"f">>)
ComponentIs == Lx("component_is", <<"c">>)
GenericLp == Lx("generic_lp", <<>>)
PortLp == Lx("port_lp", <<>>)
EndComponentLx == Lx("end_component", <<>>)
ModeWord(m, w) == Lx("mode_word", <<m, w>>)
RpReturnSemi == Lx("rp_return_semi", <<"integer">>)

Function_ == Lx("function", <<"f">>)
ProcedureLp == Lx("procedure_lp", <<"f">>)
ReturnSemi == Lx("return_semi", <<"integer">>)
ReturnIs == Lx("return_is", <<"integer">>)
RpIs == Lx("rp_is", <<>>)
Default == Lx("default", <<"8">>)
Section == Lx("section", <<"s">>)
Comment == Lx("comment", <<>>)
ModeWordLp == Lx("mode_word_lp", <<"in", "bit">>)

\* Subprogram declarations with parameter groups.
SubprogramInputs ==
  Family(<<FunctionLp, Word("a")>>,
         {Word("b"), Comma, Colon, ModeWord("in", "integer"), Semi, RpReturnSemi},
         MaxLen)

\* Documented subprograms at top level and in a package.
DocumentedInputs ==
  Family(<<>>,
         {PackageIs, Meta(" m1"), Function_, ReturnSemi, FunctionLp, Word("a"),
          Colon, RpReturnSemi, Junk},
         MaxDocLen)

\* Package declarations, procedures, defaults and subprogram bodies.
DeclarationInputs ==
  Family(<<PackageIs>>,
         {Meta(" m1"), Comment, Lx("type_is", <<"a">>), Lx("array", <<>>),
          Lx("record", <<>>), Lx("file", <<>>), Lx("access", <<>>),
          Lx("range", <<>>), LParen, Semi,
          Lx("subtype", <<"a", "b">>), Lx("constant", <<"a", "integer">>),
          Lx("end_package", <<>>), ProcedureLp, Function_, ReturnIs,
          Lx("class_word", <<"signal ", "a">>), Colon, Default, RpIs, RpSemi},
         MaxDeclLen)

\* A component's generic list.
GenericInputs ==
  Family(<<ComponentIs, GenericLp>>,
         {Word("a"), Comma, Colon, Word("integer"), Default, RpSemi,
          Meta(" m1"), EndComponentLx},
         MaxGenericLen)

\* A component's port list.
PortInputs ==
  Family(<<ComponentIs, PortLp>>,
         {Word("a"), Colon, ModeWord("in", "bit"), Semi, Section, Meta(" m1"),
          RpSemi, EndComponentLx},
         MaxPortLen)

\* A port with an array range.
RangeInputs ==
  Family(<<ComponentIs, PortLp, Word("a"), Colon, ModeWord("in", "bit"), LParen>>,
         {LParen, RParen, RpSemi, EndComponentLx, Meta(" m1"), Junk},
         6 + 2 * MaxNest + 2)

\* A component with generics and ports, then further declarations.
ComponentInputs ==
  Family(<<ComponentIs, GenericLp, Word("a"), Colon, Word("integer"), Default,
           RpSemi, PortLp>>,
         {Section, Word("a"), Colon, ModeWord("in", "bit"), ModeWordLp, RParen,
          RpSemi, EndComponentLx, Meta(" m1"), Function_, ReturnSemi},
         8 + MaxTail)

\* A documented package that ends, then further packages and declarations.
PackageInputs ==
  Family(<<PackageIs, Meta(" m1"), Lx("end_package", <<>>)>>,
         {PackageIs, Meta(" m2"), Lx("subtype", <<"a", "b">>), Function_,
          ReturnSemi, Lx("end_package", <<>>)},
         3 + MaxPackageTail)

\* A component in a package, then the declarations of a second one.
AgainInputs ==
  Family(<<PackageIs, ComponentIs, PortLp, Word("a"), Colon,
           ModeWord("in", "bit"), RpSemi, EndComponentLx>>,
         {Meta(" m2"), ComponentIs, GenericLp, PortLp, Word("b"), Colon,
          ModeWord("in", "bit"), RpSemi, EndComponentLx},
         8 + MaxAgainTail)

Inputs ==
  [package |-> PackageInputs, again |-> AgainInputs, subprogram |-> SubprogramInputs, documented |-> DocumentedInputs,
   declaration |-> DeclarationInputs, generic |-> GenericInputs,
   port |-> PortInputs, range |-> RangeInputs, component |-> ComponentInputs]

\* ------------------------------------------------------------------- state
VARIABLES
  input,
  text, cursor, stack, status, result,
  pos, action, groups,
  name, kind, saved_type, metacomments, parameters, param_items,
  generics, ports, sections, port_param_index, last_item,
  array_range_start_pos, mode, ptype, objects, shared

\* The state of a VhdlExtractor and of the call in progress on it.
VARIABLES
  usage,
  array_types, object_cache,
  op, pc, files, inner, reg_objects, subtypes, keys, sub_k, sub_v,
  read_text,
  outcome, returned, calls, parse_count,
  last_pass,
  python

pvars == <<input, text, cursor, stack, status, result, pos, action, groups,
           name, kind, saved_type, metacomments, parameters, param_items,
           generics, ports, sections, port_param_index, last_item,
           array_range_start_pos, mode, ptype, objects, shared>>
walkvars == <<reg_objects, subtypes, keys, sub_k, sub_v, read_text>>
evars == <<usage, array_types, object_cache, op, pc, files, inner, walkvars,
           outcome, returned, calls, parse_count, last_pass, python>>
vars == <<pvars, evars>>

Top == stack[Len(stack)]

\* ------------------------------------------------------------ object model
VhdlParameter(n, m, t, d, c) ==
  [name |-> n, mode |-> m, data_type |-> t, default_value |-> d, desc |-> c]

\* A data type text: a type name and the text units of its range suffix.
TypeText(t, suffix) == [type |-> t, range |-> suffix]

VhdlPackage(n) == [kind |-> "package", name |-> n, desc |-> None]
VhdlType(n, type_of, desc) ==
  [kind |-> "type", name |-> n, type_of |-> type_of, desc |-> desc]
VhdlSubtype(n, base_type, desc) ==
  [kind |-> "subtype", name |-> n, base_type |-> base_type, desc |-> desc]
VhdlConstant(n, base_type, desc) ==
  [kind |-> "constant", name |-> n, base_type |-> base_type, desc |-> desc]
VhdlFunction(n, params, return_type, desc) ==
  [kind |-> "function", name |-> n, parameters |-> params,
   return_type |-> return_type, desc |-> desc]
VhdlProcedure(n, params, desc) ==
  [kind |-> "procedure", name |-> n, parameters |-> params, desc |-> desc]
VhdlComponent(n, p, g, s, desc) ==
  [kind |-> "component", name |-> n, generics |-> g, ports |-> p,
   sections |-> s, desc |-> desc]

\* A reference to a Parameter held in one of the component's lists (Python
\* object identity): the list and the index in it.  NoItem is None.
ItemRef(l, i) == [list |-> l, index |-> i]
NoItem == ItemRef(None, 0)

\* The data type of a Parameter whose data_type is None.
NoType == TypeText(None, <<>>)

\* ------------------------------------------------------------- the lexer
\* The first rule of state s whose pattern matches lexeme lx; 0 when none does.
FirstMatch(s, lx) ==
  LET hits == {i \in 1..Len(vhdl_tokens[s]) : lx.k \in MatchKinds(vhdl_tokens[s][i].pat)}
  IN IF hits = {} THEN 0 ELSE CHOOSE i \in hits : \A j \in hits : i <= j

\* FirstMatch for every state of the table and every lexeme.
RuleIndex == [s \in DOMAIN vhdl_tokens |-> [lx \in Lexeme |-> FirstMatch(s, lx)]]

MatchedRule(s, lx) == RuleIndex[s][lx]

\* The lexemes the input may continue with: the family's prefix first (its
\* type and parenthesis units also read as one lexeme), then its lexemes.
Candidates ==
  LET n == Len(text)
      p == Inputs[input].prefix
  IN IF n < Len(p)
     THEN {p[n + 1]} \cup
          (IF p[n + 1].k = "mode_word" /\ n + 2 <= Len(p) /\ p[n + 2] = LParen
           THEN {Lx("mode_word_lp", p[n + 1].g)} ELSE {})
     ELSE Inputs[input].lexemes

\* Lexemes whose text begins with a word character: those that begin with a
\* keyword.  (A name, a type or a return clause comes with the white space
\* before it.)
KeywordFirst ==
  {"package_is", "function_lp", "procedure_lp", "function", "component_is",
   "subtype", "constant", "type_is", "end_package", "generic_lp", "port_lp",
   "end_component"} \cup TypeKeywords

\* Lexemes whose text begins with white space and then a word character: a
\* name, a type (with its class or mode) or a return clause.
SpaceThenWord ==
  {"word", "class_word", "mode_word", "mode_word_lp", "return_semi",
   "return_is"}

\* The states whose first rule reads a name or a type with (\w+).  The rule
\* has no directive, so the state stays on top once it has matched.
WordStates ==
  {"param_list", "param_type", "generic_list", "generic_param_type",
   "port_list"}

\* Lexemes that the patterns read with a greedy run at their end, (\w+),
\* ([\w']+) or ('.'|[^\s;)]+): text of that class right after the lexeme is
\* taken into the match.  A type keyword is one of them where a rule of
\* WordStates has read it as a name; the rules of type_decl read the keyword
\* alone and pop to state package.
OpenEnded ==
  {"function", "subtype", "constant", "word", "class_word", "mode_word",
   "default"} \cup (IF Top \in WordStates THEN TypeKeywords ELSE {})

\* Lexemes whose text begins with white space, ";" or ")", where the run
\* [^\s;)]+ of a subprogram parameter's default value stops.
StopsDefault ==
  {"word", "class_word", "mode_word", "mode_word_lp", "default", ";", ")",
   "rp_semi", "rp_is", "rp_return_semi", "rp_return_is", "return_semi",
   "return_is"}

\* The patterns would not read lx as a lexeme of its own after the lexeme
\* before it: its first characters run on from that lexeme's greedy end, or
\* its parenthesis makes the longer match of an earlier rule of the state
\* the lexeme was read in (function ... \( before function ..., a port type
\* with \( before a port type), or it makes the "file" before it the class
\* of a subprogram parameter, ((?:variable|signal|constant|file)\s+)?(\w+).
RunsOn(lx) ==
  /\ text # <<>>
  /\ LET prev == text[Len(text)].k
     IN \/ lx.k \in KeywordFirst /\ prev \in OpenEnded
        \/ lx.k \in SpaceThenWord /\ prev = "file" /\ Top = "param_list"
        \/ lx = LParen /\ prev = "function" /\ Top = "simple_func"
        \/ lx = LParen /\ prev = "mode_word" /\ Top = "port_param_type"
        \/ prev = "default" /\ Top = "param_type" /\ lx.k \notin StopsDefault

\* The input continues with lexeme lx: lx does not run on from the lexeme
\* before it, and the first matching rule, if any, consumes exactly lx.
Offered(lx) ==
  /\ Len(text) + Len(Units(lx)) <= Inputs[input].maxlen
  /\ ~RunsOn(lx)
  /\ LET i == MatchedRule(Top, lx)
     IN IF i = 0 THEN TRUE ELSE lx.k \in WholeKinds(vhdl_tokens[Top][i].pat)

\* Levels a #pop directive removes.
PopCount(new_state) == IF new_state = "#pop:2" THEN 2 ELSE 1

\* The state stack after a rule's directive.
ApplyDirective(s, new_state) ==
  IF new_state = None THEN s
  ELSE IF new_state \in {"#pop", "#pop:2"}
       THEN SubSeq(s, 1, Len(s) - PopCount(new_state))
       ELSE Append(s, new_state)

\* The rule that fires on lx in the active state.
RuleFor(lx) == vhdl_tokens[Top][MatchedRule(Top, lx)]

\* One rule application: the cursor passes the match and the directive is applied.
Advance(lx) ==
  /\ status = "running"
  /\ Offered(lx)
  /\ MatchedRule(Top, lx) # 0
  /\ text' = text \o Units(lx)
  /\ cursor' = cursor + Len(Units(lx))
  /\ stack' = ApplyDirective(stack, RuleFor(lx).new_state)
  /\ input' = input
  /\ UNCHANGED evars

\* A rule with an action tag yields (pos, action, groups) to the interpreter.
Event(lx, tag) ==
  /\ status = "running"
  /\ MatchedRule(Top, lx) # 0
  /\ RuleFor(lx).action = tag
  /\ Advance(lx)
  /\ pos' = <<cursor, cursor + Len(Units(lx)) - 1>>
  /\ action' = tag
  /\ groups' = Groups(RuleFor(lx).pat, lx)

\* An exception swallowed at the loop: the objects built so far are returned.
RaiseReturningObjects(e) == status' = "returned" /\ result' = objects

\* An exception leaves the for loop of parse_vhdl: nothing is returned.
Raise(e) == status' = e /\ result' = result

\* The handler ran to its end.
Continue == UNCHANGED <<status, result>>

\* text[a:b]
Slice(s, a, b) == SubSeq(s, a + 1, b)

\* dict(pairs): the last pair of a key wins.
Dict(pairs) ==
  [k \in {pairs[i][1] : i \in DOMAIN pairs} |->
     LET last == CHOOSE i \in DOMAIN pairs :
                   /\ pairs[i][1] = k
                   /\ \A j \in DOMAIN pairs : pairs[j][1] = k => j <= i
     IN pairs[last][2]]

\* --------------------------------------------------------------- parse_vhdl
\* The interpreters the module runs under.  dict.iteritems (line 474) exists
\* under Python 2, and as dict.items in a build converted by 2to3; under
\* Python 3 looking it up raises AttributeError.
Pythons == {2, 3}

\* The last registration of the objects of a file in the cache that came to
\* its end (it returned, or raised), as long as nothing else has written to
\* the registry since: the objects registered and the registry it left.
Pass(objs, types) == [done |-> TRUE, objects |-> objs, types |-> types]
NoPass == [done |-> FALSE, objects |-> <<>>, types |-> {}]

\* No call on an extractor is in progress, and none returned.
Idle ==
  /\ op = "idle" /\ pc = "idle" /\ files = <<>> /\ inner = FALSE
  /\ reg_objects = <<>> /\ subtypes = <<>> /\ keys = {}
  /\ sub_k = None /\ sub_v = None /\ read_text = None
  /\ outcome = None /\ returned = <<>>

\* The parser runs on its own: there is no extractor.
NoExtractor ==
  /\ usage = None /\ array_types = {} /\ object_cache = <<>>
  /\ calls = 0 /\ parse_count = <<>>
  /\ last_pass = NoPass
  /\ python = 3
  /\ Idle

\* The first lines of parse_vhdl, on a text of one of the families.
ParseVhdlStart(families) ==
  /\ input \in families
  /\ text = <<>> /\ cursor = 0 /\ stack = <<"root">>
  /\ status = "running" /\ result = <<>>
  /\ pos = <<0, 0>> /\ action = None /\ groups = <<>>
  /\ name = None /\ kind = None /\ saved_type = None
  /\ metacomments = <<>> /\ parameters = <<>> /\ param_items = <<>>
  /\ generics = <<>> /\ ports = <<>> /\ sections = <<>>
  /\ port_param_index = 0 /\ last_item = NoItem
  /\ array_range_start_pos = 0
  /\ mode = None /\ ptype = None
  /\ objects = <<>>
  /\ shared = 0

Init == ParseVhdlStart(DOMAIN Inputs) /\ NoExtractor

\* The output sequence as seen after a write to the generics and ports
\* lists: the component emitted by end_component holds these very lists
\* until the next component event binds the names to new ones.
WrittenThrough(objs, g, p) ==
  IF shared = 0 THEN objs
  ELSE [objs EXCEPT ![shared].generics = g, ![shared].ports = p]

\* last_item.desc = d
SetDesc(list, ref, d) ==
  IF ref.index \in DOMAIN list THEN [list EXCEPT ![ref.index].desc = d] ELSE list

Metacomment == \E lx \in Candidates :
  /\ Event(lx, "metacomment")
  /\ IF last_item = NoItem
     THEN /\ metacomments' = Append(metacomments, groups'[1])
          /\ UNCHANGED <<generics, ports>>
     ELSE /\ generics' = IF last_item.list = "generics"
                         THEN SetDesc(generics, last_item, groups'[1]) ELSE generics
          /\ ports' = IF last_item.list = "ports"
                      THEN SetDesc(ports, last_item, groups'[1]) ELSE ports
          /\ UNCHANGED metacomments
  /\ Continue
  /\ UNCHANGED <<name, kind, saved_type, parameters, param_items, sections,
                 port_param_index, last_item, array_range_start_pos, mode,
                 ptype, shared>>
  /\ objects' = WrittenThrough(objects, generics', ports')

SectionMeta == \E lx \in Candidates :
  /\ Event(lx, "section_meta")
  /\ sections' = Append(sections, <<port_param_index, groups'[1]>>)
  /\ Continue
  /\ UNCHANGED <<name, kind, saved_type, metacomments, parameters, param_items,
                 generics, ports, port_param_index, last_item,
                 array_range_start_pos, mode, ptype, objects, shared>>

\* The handlers of 'function' and 'procedure'.
OpenSubprogram(tag) == \E lx \in Candidates :
  /\ Event(lx, tag)
  /\ kind' = tag
  /\ name' = groups'[1]
  /\ param_items' = <<>>
  /\ parameters' = <<>>
  /\ Continue
  /\ UNCHANGED <<saved_type, metacomments, generics, ports, sections,
                 port_param_index, last_item, array_range_start_pos, mode,
                 ptype, objects, shared>>

Function == OpenSubprogram("function")

Procedure == OpenSubprogram("procedure")

Param == \E lx \in Candidates :
  /\ Event(lx, "param")
  /\ parameters' = parameters \o param_items
  /\ param_items' = <<VhdlParameter(groups'[2], None, NoType, None, None)>>
  /\ Continue
  /\ UNCHANGED <<name, kind, saved_type, metacomments, generics, ports,
                 sections, port_param_index, last_item, array_range_start_pos,
                 mode, ptype, objects, shared>>

ParamType == \E lx \in Candidates :
  /\ Event(lx, "param_type")
  /\ mode' = IF groups'[1] # None THEN Strip(groups'[1]) ELSE None
  /\ ptype' = groups'[2]
  /\ param_items' = [i \in DOMAIN param_items |->
       [param_items[i] EXCEPT !.mode = mode', !.data_type = TypeText(ptype', <<>>)]]
  /\ Continue
  /\ UNCHANGED <<name, kind, saved_type, metacomments, parameters, generics,
                 ports, sections, port_param_index, last_item,
                 array_range_start_pos, objects, shared>>

ParamDefault == \E lx \in Candidates :
  /\ Event(lx, "param_default")
  /\ param_items' = [i \in DOMAIN param_items |->
       [param_items[i] EXCEPT !.default_value = groups'[1]]]
  /\ Continue
  /\ UNCHANGED <<name, kind, saved_type, metacomments, parameters, generics,
                 ports, sections, port_param_index, last_item,
                 array_range_start_pos, mode, ptype, objects, shared>>

EndSubprogram == \E lx \in Candidates :
  /\ Event(lx, "end_subprogram")
  /\ LET params == parameters \o param_items
         vobj == IF kind = "function"
                 THEN VhdlFunction(name, params, groups'[1], metacomments)
                 ELSE VhdlProcedure(name, params, metacomments)
     IN objects' = Append(objects, vobj)
  /\ metacomments' = <<>>
  /\ parameters' = <<>>
  /\ param_items' = <<>>
  /\ kind' = None
  /\ name' = None
  /\ Continue
  /\ UNCHANGED <<saved_type, generics, ports, sections, port_param_index,
                 last_item, array_range_start_pos, mode, ptype, shared>>

Component == \E lx \in Candidates :
  /\ Event(lx, "component")
  /\ kind' = "component"
  /\ name' = groups'[1]
  /\ generics' = <<>>
  /\ ports' = <<>>
  /\ param_items' = <<>>
  /\ sections' = <<>>
  /\ port_param_index' = 0
  /\ shared' = 0
  /\ Continue
  /\ UNCHANGED <<saved_type, metacomments, parameters, last_item,
                 array_range_start_pos, mode, ptype, objects>>

GenericParam == \E lx \in Candidates :
  /\ Event(lx, "generic_param")
  /\ param_items' = Append(param_items, groups'[1])
  /\ Continue
  /\ UNCHANGED <<name, kind, saved_type, metacomments, parameters, generics,
                 ports, sections, port_param_index, last_item,
                 array_range_start_pos, mode, ptype, objects, shared>>

\* list[-1] of a list: its last index, and an IndexError when it is empty.
LastItem(l, list) ==
  IF list = <<>>
  THEN /\ Raise("IndexError")
       /\ UNCHANGED last_item
  ELSE /\ Continue
       /\ last_item' = ItemRef(l, Len(list))

GenericParamType == \E lx \in Candidates :
  /\ Event(lx, "generic_param_type")
  /\ ptype' = groups'[1]
  /\ generics' = generics \o
       [i \in DOMAIN param_items |->
          VhdlParameter(param_items[i], "in", TypeText(ptype', <<>>), None, None)]
  /\ param_items' = <<>>
  /\ LastItem("generics", generics')
  /\ UNCHANGED <<name, kind, saved_type, metacomments, parameters, ports,
                 sections, port_param_index, array_range_start_pos, mode, shared>>
  /\ objects' = WrittenThrough(objects, generics', ports')

PortParam == \E lx \in Candidates :
  /\ Event(lx, "port_param")
  /\ param_items' = Append(param_items, groups'[1])
  /\ port_param_index' = port_param_index + 1
  /\ Continue
  /\ UNCHANGED <<name, kind, saved_type, metacomments, parameters, generics,
                 ports, sections, last_item, array_range_start_pos, mode,
                 ptype, objects, shared>>

PortParamType == \E lx \in Candidates :
  /\ Event(lx, "port_param_type")
  /\ mode' = groups'[1]
  /\ ptype' = groups'[2]
  /\ ports' = ports \o
       [i \in DOMAIN param_items |->
          VhdlParameter(param_items[i], mode', TypeText(ptype', <<>>), None, None)]
  /\ param_items' = <<>>
  /\ LastItem("ports", ports')
  /\ UNCHANGED <<name, kind, saved_type, metacomments, parameters, generics,
                 sections, port_param_index, array_range_start_pos, shared>>
  /\ objects' = WrittenThrough(objects, generics', ports')

PortArrayParamType == \E lx \in Candidates :
  /\ Event(lx, "port_array_param_type")
  /\ mode' = groups'[1]
  /\ ptype' = groups'[2]
  /\ array_range_start_pos' = pos'[2]
  /\ Continue
  /\ UNCHANGED <<name, kind, saved_type, metacomments, parameters, param_items,
                 generics, ports, sections, port_param_index, last_item,
                 objects, shared>>

\* A range slice that stops before the matched parenthesis.
ArrayRangeExclusive(t, start, p) == Slice(t, start, p[1])

\* text[array_range_start_pos:pos[0]+1]
ArrayRange(t, start, p) == Slice(t, start, p[1] + 1)

ArrayRangeEnd == \E lx \in Candidates :
  /\ Event(lx, "array_range_end")
  /\ LET arange == ArrayRange(text', array_range_start_pos, pos')
     IN ports' = ports \o
          [i \in DOMAIN param_items |->
             VhdlParameter(param_items[i], mode, TypeText(ptype, arange), None, None)]
  /\ param_items' = <<>>
  /\ LastItem("ports", ports')
  /\ UNCHANGED <<name, kind, saved_type, metacomments, parameters, generics,
                 sections, port_param_index, array_range_start_pos, mode,
                 ptype, shared>>
  /\ objects' = WrittenThrough(objects, generics', ports')

\* An end_component that leaves the metacomment target on the last port.
EndComponentKeepingTarget == \E lx \in Candidates :
  /\ Event(lx, "end_component")
  /\ objects' = Append(objects,
       VhdlComponent(name, ports, generics, Dict(sections), metacomments))
  /\ last_item' = last_item
  /\ metacomments' = <<>>
  /\ shared' = Len(objects')
  /\ Continue
  /\ UNCHANGED <<name, kind, saved_type, parameters, param_items, generics,
                 ports, sections, port_param_index, array_range_start_pos,
                 mode, ptype>>

EndComponent == \E lx \in Candidates :
  /\ Event(lx, "end_component")
  /\ objects' = Append(objects,
       VhdlComponent(name, ports, generics, Dict(sections), metacomments))
  /\ last_item' = NoItem
  /\ metacomments' = <<>>
  /\ shared' = Len(objects')
  /\ Continue
  /\ UNCHANGED <<name, kind, saved_type, parameters, param_items, generics,
                 ports, sections, port_param_index, array_range_start_pos,
                 mode, ptype>>

Package == \E lx \in Candidates :
  /\ Event(lx, "package")
  /\ objects' = Append(objects, VhdlPackage(groups'[1]))
  /\ kind' = None
  /\ name' = None
  /\ Continue
  /\ UNCHANGED <<saved_type, metacomments, parameters, param_items, generics,
                 ports, sections, port_param_index, last_item,
                 array_range_start_pos, mode, ptype, shared>>

Type == \E lx \in Candidates :
  /\ Event(lx, "type")
  /\ saved_type' = groups'[1]
  /\ Continue
  /\ UNCHANGED <<name, kind, metacomments, parameters, param_items, generics,
                 ports, sections, port_param_index, last_item,
                 array_range_start_pos, mode, ptype, objects, shared>>

TypeActions ==
  {"array_type", "file_type", "access_type", "record_type", "range_type",
   "enum_type", "incomplete_type"}

TypeOf == \E lx \in Candidates : \E tag \in TypeActions :
  /\ Event(lx, tag)
  /\ objects' = Append(objects, VhdlType(saved_type, tag, metacomments))
  /\ kind' = None
  /\ name' = None
  /\ metacomments' = <<>>
  /\ Continue
  /\ UNCHANGED <<saved_type, parameters, param_items, generics, ports,
                 sections, port_param_index, last_item, array_range_start_pos,
                 mode, ptype, shared>>

Subtype == \E lx \in Candidates :
  /\ Event(lx, "subtype")
  /\ objects' = Append(objects, VhdlSubtype(groups'[1], groups'[2], metacomments))
  /\ kind' = None
  /\ name' = None
  /\ metacomments' = <<>>
  /\ Continue
  /\ UNCHANGED <<saved_type, parameters, param_items, generics, ports,
                 sections, port_param_index, last_item, array_range_start_pos,
                 mode, ptype, shared>>

Constant == \E lx \in Candidates :
  /\ Event(lx, "constant")
  /\ objects' = Append(objects, VhdlConstant(groups'[1], groups'[2], metacomments))
  /\ kind' = None
  /\ name' = None
  /\ metacomments' = <<>>
  /\ Continue
  /\ UNCHANGED <<saved_type, parameters, param_items, generics, ports,
                 sections, port_param_index, last_item, array_range_start_pos,
                 mode, ptype, shared>>

\* Action tags of the table that no branch of parse_vhdl handles.
UnhandledActions ==
  {"generic_param_default", "port_param_default", "end_generic", "end_port",
   "open_paren", "close_paren"}

Unhandled == \E lx \in Candidates : \E tag \in UnhandledActions :
  /\ Event(lx, tag)
  /\ Continue
  /\ UNCHANGED <<name, kind, saved_type, metacomments, parameters, param_items,
                 generics, ports, sections, port_param_index, last_item,
                 array_range_start_pos, mode, ptype, objects, shared>>

\* A rule without an action tag yields nothing.
Silent == \E lx \in Candidates :
  /\ Advance(lx)
  /\ RuleFor(lx).action = None
  /\ Continue
  /\ UNCHANGED <<pos, action, groups, name, kind, saved_type, metacomments,
                 parameters, param_items, generics, ports, sections,
                 port_param_index, last_item, array_range_start_pos, mode,
                 ptype, objects, shared>>

\* No rule of the active state matches at the cursor: the text goes on with
\* lx, which the cursor does not pass.
LexError == \E lx \in Candidates :
  /\ status = "running"
  /\ Offered(lx)
  /\ MatchedRule(Top, lx) = 0
  /\ text' = text \o Units(lx)
  /\ Raise("LexicalError")
  /\ UNCHANGED evars
  /\ UNCHANGED <<input, cursor, stack, pos, action, groups, name, kind,
                 saved_type, metacomments, parameters, param_items, generics,
                 ports, sections, port_param_index, last_item,
                 array_range_start_pos, mode, ptype, objects, shared>>

\* A return that also hands out the declaration still being built.
ReturnValueWithPending ==
  IF kind = "function"
  THEN Append(objects, VhdlFunction(name, parameters \o param_items, None, metacomments))
  ELSE IF kind = "procedure"
  THEN Append(objects, VhdlProcedure(name, parameters \o param_items, metacomments))
  ELSE IF kind = "component"
  THEN Append(objects, VhdlComponent(name, ports, generics, Dict(sections), metacomments))
  ELSE objects

\* return objects
ReturnValue == objects

\* The cursor reached the end of the input: the for loop ends and parse_vhdl
\* returns.
EndOfInput ==
  /\ status = "running"
  /\ status' = "returned"
  /\ result' = ReturnValue
  /\ UNCHANGED evars
  /\ UNCHANGED <<input, text, cursor, stack, pos, action, groups, name, kind,
                 saved_type, metacomments, parameters, param_items, generics,
                 ports, sections, port_param_index, last_item,
                 array_range_start_pos, mode, ptype, objects, shared>>

Next ==
  \/ Metacomment \/ SectionMeta \/ Function \/ Procedure \/ Param \/ ParamType
  \/ ParamDefault \/ EndSubprogram
  \/ Component \/ GenericParam \/ GenericParamType \/ PortParam
  \/ PortParamType \/ PortArrayParamType \/ ArrayRangeEnd \/ EndComponent
  \/ Package \/ Type \/ TypeOf \/ Subtype \/ Constant \/ Unhandled
  \/ Silent \/ LexError \/ EndOfInput

Spec == Init /\ [][Next]_vars

\* ===================================================================
\* VhdlExtractor
\* ===================================================================
\* Longest object sequence registered, calls made, files of one call.
MaxObjects == 2
MaxCalls == 2
MaxFiles == 2

\* The array types every extractor knows from the start.
StandardArrayTypes ==
  {"std_ulogic_vector", "std_logic_vector", "signed", "unsigned", "bit_vector"}

\* str.lower() on the type names used.
Lower(s) ==
  CASE s = "A" -> "a" [] s = "B" -> "b" [] s = "C" -> "c" [] OTHER -> s

TypeIdents == {"a", "b", "c", "x", "C"}

\* Objects handed to register_array_types.
RegistryObjects ==
  {VhdlType("a", "array_type", <<>>), VhdlType("x", "record_type", <<>>),
   VhdlSubtype("b", "a", <<>>), VhdlSubtype("c", "b", <<>>),
   VhdlSubtype("b", "x", <<>>), VhdlSubtype("C", "b", <<>>),
   VhdlSubtype("a", "b", <<>>)}

ObjectLists == UNION {[1..n -> RegistryObjects] : n \in 0..MaxObjects}

\* What parse_vhdl does with a text: the objects it returns, or an exception.
Parsed(objs) == [ok |-> TRUE, objects |-> objs]
ParseRaises == [ok |-> FALSE, objects |-> <<>>]

\* The files: what parsing the text of each gives.
Disk ==
  [p1 |-> Parsed(<<VhdlType("a", "array_type", <<>>), VhdlSubtype("b", "a", <<>>)>>),
   p2 |-> Parsed(<<VhdlSubtype("c", "b", <<>>),
                   VhdlComponent("c", <<>>, <<>>, <<>>, <<>>)>>),
   p3 |-> ParseRaises,
   p4 |-> Parsed(<<VhdlSubtype("c", "b", <<>>), VhdlSubtype("b", "a", <<>>)>>)]

Paths == DOMAIN Disk

FileLists == UNION {[1..n -> Paths] : n \in 0..MaxFiles}

\* The array_types argument of the constructor.
ConstructorArrayTypes == {{}, {"a"}, {"b"}}

\* The type_defs argument of add_array_types.
TypeDefs == {[arrays |-> {"a"}], [arrays |-> {"C"}], [scalars |-> {"x"}]}

Usages == {"registry", "files"}

\* VhdlExtractor(array_types)
VhdlExtractorInit(types) ==
  /\ array_types = StandardArrayTypes \cup types
  /\ object_cache = <<>>

InitExtractor ==
  /\ ParseVhdlStart({"subprogram"})
  /\ usage \in Usages
  /\ \E types \in ConstructorArrayTypes : VhdlExtractorInit(types)
  /\ calls = 0
  /\ parse_count = [f \in Paths |-> 0]
  /\ last_pass = NoPass
  /\ python \in Pythons
  /\ Idle

\* d[key] = value
Put(d, key, value) ==
  [x \in DOMAIN d \cup {key} |-> IF x = key THEN value ELSE d[x]]

\* [o for o in objects if isinstance(o, VhdlComponent)]
Components(objs) == SelectSeq(objs, LAMBDA o : o.kind = "component")

\* The names of the array types among the objects.
ArrayTypeNames(objs) ==
  {objs[i].name : i \in {j \in DOMAIN objs :
                           objs[j].kind = "type" /\ objs[j].type_of = "array_type"}}

\* {o.name: o.base_type for o in objects if isinstance(o, VhdlSubtype)}
SubtypeDict(objs) ==
  LET subs == SelectSeq(objs, LAMBDA o : o.kind = "subtype")
  IN Dict([i \in DOMAIN subs |-> <<subs[i].name, subs[i].base_type>>])

\* data_type.lower() in self.array_types
is_array(data_type) == Lower(data_type) \in array_types

\* The locals of the call are gone.
NoLocals ==
  /\ reg_objects' = <<>> /\ subtypes' = <<>> /\ keys' = {}
  /\ sub_k' = None /\ sub_v' = None /\ inner' = FALSE
  /\ read_text' = None

\* The call in progress ends: it returns value, or raises.  (The action sets
\* files.)
Finish(how, value) ==
  /\ outcome' = how
  /\ returned' = value
  /\ op' = "idle" /\ pc' = "idle"
  /\ NoLocals

\* register_array_types(objs) up to its loop over the subtypes: the array
\* types are added to the registry and the subtypes dictionary is built.
StartRegister(objs, within) ==
  /\ array_types' = array_types \cup ArrayTypeNames(objs)
  /\ reg_objects' = objs
  /\ subtypes' = SubtypeDict(objs)
  /\ keys' = DOMAIN SubtypeDict(objs)
  /\ sub_k' = None /\ sub_v' = None /\ read_text' = None
  /\ inner' = within
  /\ pc' = "for"

\* extract_file_objects returned objs to caller.
AfterExtract(caller, objs) ==
  IF caller = "extract_file_objects"
  THEN Finish("returned", objs) /\ UNCHANGED array_types
  ELSE IF caller = "extract_file_components"
  THEN Finish("returned", Components(objs)) /\ UNCHANGED array_types
  ELSE /\ StartRegister(objs, FALSE)
       /\ UNCHANGED <<op, outcome, returned>>

\* A lookup that never finds the file.
NeverCached(fname) == FALSE

\* fname in self.object_cache
Cached(fname) == fname \in DOMAIN object_cache

\* extract_file_objects(fname), called by caller, up to its return or to the
\* loop of the register_array_types it calls.  The caller sets files.
ExtractFileObjects(caller, fname) ==
  IF Cached(fname)
  THEN /\ AfterExtract(caller, object_cache[fname])
       /\ UNCHANGED <<object_cache, parse_count>>
  ELSE /\ parse_count' = [parse_count EXCEPT ![fname] = @ + 1]
       /\ IF Disk[fname].ok
          THEN /\ object_cache' = Put(object_cache, fname, Disk[fname].objects)
               /\ StartRegister(Disk[fname].objects, TRUE)
               /\ op' = caller
               /\ outcome' = None /\ returned' = <<>>
          ELSE /\ Finish("raised", <<>>)
               /\ UNCHANGED <<object_cache, array_types>>

\* A new call on the extractor.
Call ==
  /\ op = "idle"
  /\ calls < MaxCalls
  /\ calls' = calls + 1
  /\ UNCHANGED <<pvars, usage, python>>

CallExtractFileObjects == \E fname \in Paths :
  /\ usage = "files"
  /\ Call
  /\ ExtractFileObjects("extract_file_objects", fname)
  /\ files' = <<>>
  /\ UNCHANGED last_pass

CallExtractFileComponents == \E fname \in Paths :
  /\ usage = "files"
  /\ Call
  /\ ExtractFileObjects("extract_file_components", fname)
  /\ files' = <<>>
  /\ UNCHANGED last_pass

CallExtractComponents == \E fname \in Paths :
  /\ usage = "files"
  /\ Call
  /\ IF Disk[fname].ok
     THEN /\ StartRegister(Disk[fname].objects, FALSE)
          /\ op' = "extract_components"
          /\ outcome' = None /\ returned' = <<>>
          /\ files' = <<>>
     ELSE /\ Finish("raised", <<>>)
          /\ files' = <<>>
          /\ UNCHANGED array_types
  /\ UNCHANGED <<object_cache, parse_count, last_pass>>

CallIsArray == \E data_type \in TypeIdents :
  /\ Call
  /\ Finish(IF is_array(data_type) THEN "True" ELSE "False", <<>>)
  /\ files' = <<>>
  /\ UNCHANGED <<array_types, object_cache, parse_count, last_pass>>

CallAddArrayTypes == \E type_defs \in TypeDefs :
  /\ usage = "registry"
  /\ Call
  /\ array_types' = IF "arrays" \in DOMAIN type_defs
                    THEN array_types \cup type_defs.arrays ELSE array_types
  /\ Finish("returned", <<>>)
  /\ files' = <<>>
  /\ UNCHANGED <<object_cache, parse_count>>
  /\ last_pass' = NoPass

\* The texts of the array-type files load_array_types is given.
TypeFileTexts ==
  {"{'arrays': ['a']}", "{'arrays': ['C']}", "{'scalars': ['x']}",
   "{", "foo()", "5", "['arrays']", "[]"}

\* A Python value: its type, what "in" finds in it and what it holds at the
\* key 'arrays'.
PyValue(type, items, arrays) == [type |-> type, items |-> items, arrays |-> arrays]
EmptyDict == PyValue("dict", {}, {})

\* ast.literal_eval(text): the value, or the exception it raises.
LiteralEval(t) ==
  CASE t = "{'arrays': ['a']}" -> [raises |-> None, value |-> PyValue("dict", {"arrays"}, {"a"})]
    [] t = "{'arrays': ['C']}" -> [raises |-> None, value |-> PyValue("dict", {"arrays"}, {"C"})]
    [] t = "{'scalars': ['x']}" -> [raises |-> None, value |-> PyValue("dict", {"scalars"}, {})]
    [] t = "5" -> [raises |-> None, value |-> PyValue("int", {}, {})]
    [] t = "['arrays']" -> [raises |-> None, value |-> PyValue("list", {"arrays"}, {})]
    [] t = "[]" -> [raises |-> None, value |-> PyValue("list", {}, {})]
    [] t = "foo()" -> [raises |-> "ValueError", value |-> EmptyDict]
    [] OTHER -> [raises |-> "SyntaxError", value |-> EmptyDict]

\* try: type_defs = ast.literal_eval(type_defs)
\* except SyntaxError: type_defs = {}
EvalOrEmpty(t) ==
  IF LiteralEval(t).raises = "SyntaxError"
  THEN [raises |-> None, value |-> EmptyDict]
  ELSE LiteralEval(t)

\* An add_array_types that replaces the registry by the loaded names.
AddArrayTypesReplacing(value, types) ==
  IF value.type = "int"
  THEN [raises |-> "TypeError", types |-> types]
  ELSE IF "arrays" \in value.items
  THEN IF value.type = "dict"
       THEN [raises |-> None, types |-> value.arrays]
       ELSE [raises |-> "TypeError", types |-> types]
  ELSE [raises |-> None, types |-> types]

\* add_array_types(value) on the registry types: the registry after it, or
\* the TypeError of "'arrays' in value" or of "value['arrays']".
AddArrayTypes(value, types) ==
  IF value.type = "int"
  THEN [raises |-> "TypeError", types |-> types]
  ELSE IF "arrays" \in value.items
  THEN IF value.type = "dict"
       THEN [raises |-> None, types |-> types \cup value.arrays]
       ELSE [raises |-> "TypeError", types |-> types]
  ELSE [raises |-> None, types |-> types]

\* load_array_types(fname): the file is read.
CallLoadArrayTypes == \E t \in TypeFileTexts :
  /\ usage = "registry"
  /\ Call
  /\ op' = "load_array_types"
  /\ pc' = "eval"
  /\ read_text' = t
  /\ outcome' = None /\ returned' = <<>>
  /\ UNCHANGED <<array_types, object_cache, parse_count, files, inner,
                 reg_objects, subtypes, keys, sub_k, sub_v, last_pass>>

\* load_array_types: the text is evaluated and the result added.
EvalArrayTypes ==
  /\ pc = "eval"
  /\ LET e == EvalOrEmpty(read_text)
         a == AddArrayTypes(e.value, array_types)
     IN IF e.raises # None
        THEN Finish("raised", <<>>) /\ UNCHANGED array_types
        ELSE /\ Finish(IF a.raises # None THEN "raised" ELSE "returned", <<>>)
             /\ array_types' = a.types
  /\ files' = <<>>
  /\ UNCHANGED <<pvars, usage, python, object_cache, calls, parse_count>>
  /\ last_pass' = NoPass

CallRegisterArrayTypes == \E objs \in ObjectLists :
  /\ usage = "registry"
  /\ Call
  /\ StartRegister(objs, FALSE)
  /\ op' = "register_array_types"
  /\ outcome' = None /\ returned' = <<>> /\ files' = <<>>
  /\ UNCHANGED <<object_cache, parse_count, last_pass>>

CallRegisterFilesArrayTypes == \E fs \in FileLists :
  /\ usage = "files"
  /\ Call
  /\ op' = "register_files_array_types"
  /\ pc' = "files"
  /\ files' = fs
  /\ outcome' = None /\ returned' = <<>>
  /\ UNCHANGED <<array_types, object_cache, parse_count, inner, walkvars, last_pass>>

\* for fname in files: the next file, or the end of the loop.
ForFile ==
  /\ pc = "files"
  /\ IF files = <<>>
     THEN /\ Finish("returned", <<>>)
          /\ UNCHANGED <<array_types, object_cache, parse_count>>
     ELSE ExtractFileObjects(op, Head(files))
  /\ files' = IF op' = "idle" THEN <<>> ELSE Tail(files)
  /\ UNCHANGED <<pvars, usage, python, calls, last_pass>>

\* subtypes.iteritems can be looked up.
HasIterItems == python = 2

\* for k, v in subtypes.iteritems(): the lookup of iteritems raises
\* AttributeError, which leaves register_array_types and its callers; the
\* array types were added, the file is in the cache.
ForSubtypeRaises ==
  /\ pc = "for"
  /\ ~HasIterItems
  /\ Finish("raised", <<>>)
  /\ files' = <<>>
  /\ last_pass' = IF inner \/ op = "register_files_array_types"
                  THEN Pass(reg_objects, array_types) ELSE NoPass
  /\ UNCHANGED <<pvars, usage, python, array_types, object_cache, calls,
                 parse_count>>

\* for k, v in subtypes.iteritems(): the next subtype.
ForSubtype == \E key \in keys :
  /\ pc = "for"
  /\ HasIterItems
  /\ sub_k' = key
  /\ sub_v' = subtypes[key]
  /\ keys' = keys \ {key}
  /\ pc' = "while"
  /\ UNCHANGED <<pvars, usage, python, array_types, object_cache, op, files, inner,
                 reg_objects, subtypes, read_text, outcome, returned, calls,
                 parse_count, last_pass>>

\* A walk that stops at the base type of the subtype itself.
NeverInSubtypes(v) == FALSE

\* v in subtypes
InSubtypes(v) == v \in DOMAIN subtypes

\* while v in subtypes: v = subtypes[v]
WhileSubtype ==
  /\ pc = "while"
  /\ InSubtypes(sub_v)
  /\ sub_v' = subtypes[sub_v]
  /\ UNCHANGED <<pvars, usage, python, array_types, object_cache, op, pc, files, inner,
                 reg_objects, subtypes, keys, sub_k, read_text, outcome,
                 returned, calls, parse_count, last_pass>>

\* if v in self.array_types: self.array_types.add(k)
AddSubtype ==
  /\ pc = "while"
  /\ ~InSubtypes(sub_v)
  /\ array_types' = IF sub_v \in array_types
                    THEN array_types \cup {sub_k} ELSE array_types
  /\ pc' = "for"
  /\ UNCHANGED <<pvars, usage, python, object_cache, op, files, inner, reg_objects,
                 subtypes, keys, sub_k, sub_v, read_text, outcome, returned,
                 calls, parse_count, last_pass>>

\* The loop over the subtypes is over: register_array_types returns.
EndRegister ==
  /\ pc = "for"
  /\ HasIterItems
  /\ keys = {}
  /\ IF inner
     THEN AfterExtract(op, reg_objects)
     ELSE IF op = "register_files_array_types"
     THEN /\ pc' = "files"
          /\ NoLocals
          /\ UNCHANGED <<op, outcome, returned, array_types>>
     ELSE /\ Finish("returned",
                    IF op = "extract_components" THEN Components(reg_objects)
                    ELSE <<>>)
          /\ UNCHANGED array_types
  /\ files' = IF op' = "idle" THEN <<>> ELSE files
  /\ UNCHANGED <<pvars, usage, python, object_cache, calls, parse_count>>
  /\ last_pass' = IF inner \/ op = "register_files_array_types"
                  THEN Pass(reg_objects, array_types) ELSE NoPass

NextExtractor ==
  \/ CallExtractFileObjects \/ CallExtractFileComponents
  \/ CallExtractComponents \/ CallIsArray \/ CallAddArrayTypes
  \/ CallRegisterArrayTypes \/ CallRegisterFilesArrayTypes
  \/ CallLoadArrayTypes \/ EvalArrayTypes
  \/ ForFile \/ ForSubtypeRaises \/ ForSubtype \/ WhileSubtype \/ AddSubtype
  \/ EndRegister

SpecExtractor == InitExtractor /\ [][NextExtractor]_vars


\* ===================================================================
\* What the text declares, read off the text alone
\* ===================================================================
Last(q) == q[Len(q)]

\* The event with this tag was the last thing the lexer consumed, and the text
\* read so far ends with it.
JustFired(tag) == action = tag /\ text # <<>> /\ pos[2] + 1 = Len(text)

\* Index of the last unit of t of one of the kinds; 0 when there is none.
LastIndexOf(t, kinds) ==
  LET hits == {i \in DOMAIN t : t[i].k \in kinds}
  IN IF hits = {} THEN 0 ELSE CHOOSE i \in hits : \A j \in hits : j <= i

\* A declaration list "name {, name} : [mode] type [:= value] {; ...}" read
\* from its units: the declared (name, mode, type, default) in order.  st is
\* what may come next; ok is FALSE when the units are not such a list or stop
\* before the type of the last group.
RECURSIVE Scan(_, _, _, _, _, _)
Scan(us, i, st, names, done, implicit) ==
  IF i > Len(us)
  THEN [ok |-> st \in {"end", "close"}, params |-> done \o names]
  ELSE
    LET u == us[i] IN
    CASE st = "name" /\ u.k \in {"word", "class_word"} ->
           Scan(us, i + 1, "sep",
                Append(names, [name |-> Last(u.g), mode |-> implicit,
                               type |-> None, default |-> None]),
                done, implicit)
      [] st = "sep" /\ u.k = "," -> Scan(us, i + 1, "name", names, done, implicit)
      [] st = "sep" /\ u.k = ":" -> Scan(us, i + 1, "type", names, done, implicit)
      [] st = "type" /\ u.k = "word" ->
           Scan(us, i + 1, "end",
                [j \in DOMAIN names |-> [names[j] EXCEPT !.type = u.g[1]]],
                done, implicit)
      [] st = "type" /\ u.k = "mode_word" ->
           Scan(us, i + 1, "end",
                [j \in DOMAIN names |->
                   [names[j] EXCEPT !.mode = u.g[1], !.type = u.g[2]]],
                done, implicit)
      [] st = "end" /\ u.k = "default" ->
           Scan(us, i + 1, "close",
                [j \in DOMAIN names |-> [names[j] EXCEPT !.default = u.g[1]]],
                done, implicit)
      [] st \in {"end", "close"} /\ u.k = ";" ->
           Scan(us, i + 1, "name", <<>>, done \o names, implicit)
      [] OTHER -> [ok |-> FALSE, params |-> <<>>]

\* The list declared by units us; implicit is the mode of a group without one.
Declared(us, implicit) == Scan(us, 1, "name", <<>>, <<>>, implicit)

\* What a Parameter says of its name, mode, type and default.
Stated(p) ==
  [name |-> p.name, mode |-> p.mode, type |-> p.data_type.type,
   default |-> p.default_value]

\* The units of the parameter list that the last unit of the text closes.
ParameterUnits ==
  LET open == LastIndexOf(text, {"function_lp", "procedure_lp"})
  IN SubSeq(text, open + 1, Len(text) - 1)

NoDefaults(ps) == \A i \in DOMAIN ps : ps[i].default = None

\* ===================================================================
\* Claims
\* ===================================================================

\* C1: for every subprogram declaration whose parameter list consists of
\* groups of comma-separated names, each followed by one shared type
\* annotation, the emitted Function/Procedure has one Parameter per declared
\* name, in declaration order, each with the mode and data_type of its own
\* group (for "a, b : in integer" both a and b have mode in, type integer).
C1_GroupBackfill ==
  (JustFired("end_subprogram")
     /\ LastIndexOf(text, {"function_lp", "procedure_lp"}) # 0
     /\ Declared(ParameterUnits, None).ok
     /\ NoDefaults(Declared(ParameterUnits, None).params))
  => LET ps == Last(objects).parameters
     IN [i \in DOMAIN ps |-> Stated(ps[i])] = Declared(ParameterUnits, None).params

\* The difference between opening and closing parentheses in t[from..].
RECURSIVE Depth(_, _)
Depth(t, from) ==
  IF from > Len(t) THEN 0
  ELSE (IF t[from].k = "(" THEN 1 ELSE IF t[from].k = ")" THEN -1 ELSE 0)
       + Depth(t, from + 1)

\* The opening parenthesis of the last array range of the text: the last
\* parenthesis that directly follows a port's mode and type.
RangeOpen ==
  LET opens == {i \in 2..Len(text) : text[i] = LParen /\ text[i - 1].k = "mode_word"}
  IN IF opens = {} THEN 0 ELSE CHOOSE i \in opens : \A j \in opens : j <= i

\* The names of the port group whose type is at unit i of the text.
GroupNames(i) ==
  LET from == LastIndexOf(SubSeq(text, 1, i - 1), {";", "port_lp", "generic_lp"})
  IN SelectSeq(SubSeq(text, from + 1, i - 1), LAMBDA u : u.k = "word")

\* The last array range of the text is that of a port declaration: the mode
\* and type before it directly follow the colon that ends a list of names.
RangesDeclared ==
  /\ RangeOpen > 3
  /\ text[RangeOpen - 2].k = ":"
  /\ GroupNames(RangeOpen - 1) # <<>>

\* C2: for a component port declared with an array range, the port's
\* data_type is the captured type name followed by exactly the source text
\* from the range's opening parenthesis to its matching closing parenthesis,
\* both inclusive, for any balanced nesting of inner parentheses;
\* array_range_end fires only at the parenthesis that balances the opening
\* one, and an inner closing parenthesis (close_paren) never ends the range.
C2_ArrayRangeVerbatim ==
  /\ (JustFired("array_range_end") /\ RangesDeclared)
     => /\ status # "IndexError"
        /\ Depth(text, RangeOpen) = 0
        /\ \A j \in RangeOpen..(Len(text) - 1) :
             Depth(SubSeq(text, 1, j), RangeOpen) > 0
        /\ LET names == GroupNames(RangeOpen - 1)
               n == Len(names)
               m == Len(ports)
           IN /\ n > 0 /\ n <= m
              /\ \A i \in 1..n :
                   /\ ports[m - n + i].name = names[i].g[1]
                   /\ ports[m - n + i].mode = text[RangeOpen - 1].g[1]
                   /\ ports[m - n + i].data_type =
                        TypeText(text[RangeOpen - 1].g[2],
                                 SubSeq(text, RangeOpen, Len(text)))
  /\ JustFired("close_paren") => RangeOpen # 0 /\ Depth(text, RangeOpen) > 0

\* A port's range with MaxNest parentheses nested inside it has just ended.
C2_Witness ==
  /\ JustFired("array_range_end") /\ RangesDeclared
  /\ ports # <<>>
  /\ LET r == Last(ports).data_type.range
     IN /\ Len(r) = 2 * (MaxNest + 1)
        /\ \A i \in 1..(MaxNest + 1) : r[i] = LParen

\* The units of the generic list of the last component of the text: from its
\* "generic (" to the first ");" after it.
GenericUnits ==
  LET open == LastIndexOf(text, {"generic_lp"})
      closes == {i \in (open + 1)..Len(text) : text[i].k = "rp_semi"}
      close == IF closes = {} THEN Len(text) + 1
               ELSE CHOOSE i \in closes : \A j \in closes : i <= j
  IN IF open = 0 THEN <<>> ELSE SubSeq(text, open + 1, close - 1)

\* C3: when a component generic is declared with a ":= value" default, the
\* emitted Component's generic Parameter has mode "in", the declared
\* data_type, and default_value equal to the captured default text.
C3_GenericDefault ==
  (JustFired("end_component")
     /\ Declared(GenericUnits, "in").ok
     /\ ~NoDefaults(Declared(GenericUnits, "in").params))
  => LET gs == Last(objects).generics
     IN [i \in DOMAIN gs |-> Stated(gs[i])] = Declared(GenericUnits, "in").params

\* The declaration opener that unit i of the text belongs to; 0 without one.
Opener(i) ==
  LastIndexOf(SubSeq(text, 1, i - 1),
              {"function_lp", "procedure_lp", "function", "component_is"})

\* Unit i of the text is the terminating token of a subprogram declaration
\* (")  [return T] ;" after a parameter list, "return T ;" without one).
ClosesSubprogram(i) ==
  \/ text[i].k \in {"rp_return_semi", "return_semi"}
  \/ /\ text[i].k = "rp_semi"
     /\ Opener(i) # 0
     /\ text[Opener(i)].k \in {"function_lp", "procedure_lp"}

ClosesComponent(i) == text[i].k = "end_component"

\* The declarations of the text whose terminating token is in the text, in
\* order: the kind and name given by the opener of each.
RECURSIVE Terminated(_)
Terminated(i) ==
  IF i = 0 THEN <<>>
  ELSE IF ClosesSubprogram(i) \/ ClosesComponent(i)
       THEN Append(Terminated(i - 1),
                   [kind |-> IF text[Opener(i)].k = "component_is" THEN "component"
                             ELSE IF text[Opener(i)].k = "procedure_lp" THEN "procedure"
                             ELSE "function",
                    name |-> text[Opener(i)].g[1]])
       ELSE Terminated(i - 1)

Declarations == {"function", "procedure", "component"}

\* The Functions, Procedures and Components of a sequence of objects.
Emitted(objs) ==
  LET ds == SelectSeq(objs, LAMBDA o : o.kind \in Declarations)
  IN [i \in DOMAIN ds |-> [kind |-> ds[i].kind, name |-> ds[i].name]]

\* objects grows by vobj appended at its end.
Appends(vobj) == objects' = Append(objects, vobj)

\* C4: a Function/Procedure is appended to the output only on an
\* end_subprogram event and a Component only on an end_component event, so
\* for an input that ends in the middle of a declaration the parse returns
\* exactly the objects whose terminating token was seen and nothing for the
\* unterminated construct.
C4_EmittedAtTerminator ==
  /\ [](status = "returned" => Emitted(result) = Terminated(Len(text)))
  /\ [][objects' # objects =>
          /\ Len(objects') = Len(objects) + 1
          /\ Appends(Last(objects'))
          /\ Last(objects').kind \in {"function", "procedure"}
               => action' = "end_subprogram" /\ pos' # pos
          /\ Last(objects').kind = "component"
               => action' = "end_component" /\ pos' # pos]_vars

\* The input ended inside a declaration, after a complete one: the parse
\* returned with the lexer below its root state.
C4_Witness ==
  /\ status = "returned"
  /\ Len(stack) > 1
  /\ kind \in Declarations
  /\ Emitted(result) # <<>>
  /\ Opener(Len(text) + 1) > LastIndexOf(text, {"rp_return_semi", "return_semi", "end_component"})

\* The elements of a sequence.
Range(q) == {q[i] : i \in DOMAIN q}

\* C5: a metacomment line immediately preceding a function declaration, with
\* no attachment target pending, ends up in the description of the Function
\* emitted for that declaration, at top level (lexer state root) as well as
\* inside a package (lexer state package).
C5_MetacommentBeforeFunction ==
  (JustFired("end_subprogram")
     /\ Last(objects).kind = "function"
     /\ last_item = NoItem
     /\ Opener(Len(text)) > 1
     /\ text[Opener(Len(text)) - 1].k = "metacomment")
  => text[Opener(Len(text)) - 1].g[1] \in Range(Last(objects).desc)

\* The text ends with a Parameter: a name, a colon and the type.
EndsWithParameter(t) ==
  /\ Len(t) >= 4
  /\ t[Len(t)].k \in {"word", "mode_word"}
  /\ t[Len(t) - 1].k = ":"
  /\ t[Len(t) - 2].k \in {"word", "class_word"}

\* The Parameter created last, by the list the text is in.
LastParameter ==
  LET open == LastIndexOf(text, {"function_lp", "procedure_lp", "generic_lp", "port_lp"})
      list == IF text[open].k = "generic_lp" THEN generics
              ELSE IF text[open].k = "port_lp" THEN ports
              ELSE parameters \o param_items
  IN Last(list)

\* C6: a metacomment line immediately following a Parameter (a subprogram
\* parameter, a component generic or a component port) sets that Parameter's
\* description to the comment text and adds nothing to the description of the
\* enclosing Function/Procedure/Component.
C6_MetacommentAfterParameter ==
  [][(/\ EndsWithParameter(text)
      /\ Len(text') = Len(text) + 1
      /\ cursor' = Len(text')
      /\ Last(text').k = "metacomment")
     => /\ LastParameter'.desc = Last(text').g[1]
        /\ metacomments' = metacomments]_vars

\* Unit i of the text is in a port list, where a name or a section marker
\* can stand: after "port (" or after the ";" that ends a port's type.
InPortList(i) ==
  LET t == SubSeq(text, 1, i - 1)
      open == LastIndexOf(t, {"generic_lp", "port_lp"})
      at == LastIndexOf(t, {":", ";", "port_lp"})
  IN open # 0 /\ text[open].k = "port_lp" /\ text[at].k # ":"

\* The port names of the last component of the text before unit i.
PortNamesBefore(i) ==
  LET c == LastIndexOf(text, {"component_is"})
  IN Cardinality({j \in (c + 1)..(i - 1) : text[j].k = "word" /\ InPortList(j)})

\* The section markers of the last component of the text.
SectionMarkers ==
  LET c == LastIndexOf(text, {"component_is"})
  IN {i \in (c + 1)..Len(text) : text[i].k = "section" /\ InPortList(i)}

\* Every section key of every emitted Component is in [0, len(ports)].
SectionsWithinPorts ==
  \A i \in DOMAIN objects :
    objects[i].kind = "component"
      => DOMAIN objects[i].sections \subseteq 0..Len(objects[i].ports)

\* The section keys of the Component just emitted are the numbers of port
\* names captured before each marker, counted from 0 at the component event.
SectionsCountPortNames ==
  JustFired("end_component")
    => DOMAIN Last(objects).sections = {PortNamesBefore(i) : i \in SectionMarkers}

\* C7: for every emitted Component, each key of sections is an integer in
\* [0, len(ports)] and equals the number of port names captured in that
\* component before the section marker was seen; generics never change the
\* count and the count restarts at 0 at each component event.
C7_SectionKeys == SectionsWithinPorts /\ SectionsCountPortNames

\* C8: if the lexer fails at any offset of the input (no rule of the active
\* state matches before end-of-input), parse_vhdl propagates the failure to
\* its caller and returns no objects at all, even when complete declarations
\* were recognised before the failing offset.
C8_LexicalErrorPropagates ==
  /\ (status # "running" /\ cursor < Len(text))
       => status = "LexicalError" /\ result = <<>>
  /\ status = "LexicalError"
       => /\ cursor < Len(text)
          /\ \E lx \in Lexeme : /\ Units(lx) = SubSeq(text, cursor + 1, Len(text))
                                /\ MatchedRule(Top, lx) = 0

\* The lexer failed after complete declarations had been recognised.
C8_Witness ==
  /\ status = "LexicalError"
  /\ Emitted(objects) # <<>>
  /\ result = <<>>

\* C9 (as claimed): for any sequence of extract_file_objects /
\* extract_file_components / register_files_array_types calls on one
\* extractor, each path is parsed at most once during the instance's
\* lifetime; every later call for that path returns the cached object
\* sequence without parsing again.
C9_ParsedAtMostOnce ==
  usage = "files" => \A fname \in Paths : parse_count[fname] <= 1

\* A call that returned at once, without parsing: it returned the cached
\* objects of a path (or the Components among them).
ReturnedFromCache ==
  \E fname \in DOMAIN object_cache :
    returned' \in {object_cache[fname], Components(object_cache[fname])}

\* C9 (amended): each path is parsed successfully at most once during the
\* instance's lifetime; once a parse of the path has succeeded, every later
\* call for that path returns the cached object sequence without parsing it
\* again.  A path whose parse raises is not cached and is parsed again by the
\* next call for it.
C9_SuccessfulParseOnce ==
  /\ [](usage = "files" =>
          \A fname \in Paths :
            /\ Disk[fname].ok => parse_count[fname] <= 1
            /\ fname \in DOMAIN object_cache
                 <=> (Disk[fname].ok /\ parse_count[fname] = 1)
            /\ fname \in DOMAIN object_cache
                 => object_cache[fname] = Disk[fname].objects)
  /\ [][usage = "files" =>
          /\ \A fname \in DOMAIN object_cache :
               /\ parse_count'[fname] = parse_count[fname]
               /\ fname \in DOMAIN object_cache'
               /\ object_cache'[fname] = object_cache[fname]
          /\ (op = "idle" /\ op' = "idle" /\ outcome' = "returned")
               => parse_count' = parse_count /\ ReturnedFromCache]_vars

\* A path was parsed once and a later call returned its cached objects.
C9_Witness ==
  /\ usage = "files"
  /\ calls >= 2
  /\ op = "idle" /\ outcome = "returned"
  /\ DOMAIN object_cache = {"p1"}
  /\ returned = object_cache["p1"]
  /\ parse_count = [fname \in Paths |-> IF fname = "p1" THEN 1 ELSE 0]

\* The names n steps or fewer along the base_type chain of subtype key.
RECURSIVE ChainOf(_, _, _)
ChainOf(dict, key, n) ==
  IF n = 0 \/ key \notin DOMAIN dict THEN {}
  ELSE {dict[key]} \cup ChainOf(dict, dict[key], n - 1)

\* The base_type chain of a subtype of the objects being registered.
Chain(key) == ChainOf(subtypes, key, Cardinality(DOMAIN subtypes))

\* register_array_types is about to return.
Registered == pc = "for" /\ keys = {} /\ HasIterItems

\* C10: after register_array_types, every Subtype whose base_type chain
\* (followed through the Subtypes of the registered objects) reaches a name
\* that is a known array type is itself in the registry, the walk stopping as
\* soon as a known array type is reached; for a chain C -> B -> A with A a
\* registered array type, is_array(C) is true.
C10_SubtypeTransitivity ==
  Registered =>
    \A key \in DOMAIN subtypes :
      Chain(key) \cap array_types # {}
        => key \in array_types /\ is_array(key)

\* The type names of the model in their letter-case variants.
CaseVariants(n) ==
  {m \in TypeIdents \cup {"A", "B"} \cup StandardArrayTypes : Lower(m) = Lower(n)}

\* C11: is_array is a case-insensitive membership test: for any type name that
\* is in the array-type registry (seeded, loaded/added, or discovered from a
\* parsed array Type or Subtype), is_array returns true for that name and for
\* every letter-case variant of it.
C11_IsArrayCaseInsensitive ==
  \A n \in array_types : \A m \in CaseVariants(n) : is_array(m)

\* Texts that do not parse as the expected literal mapping: invalid syntax,
\* valid syntax that is not a literal, literals that are not a mapping.
NotMappings == {"{", "foo()", "5", "['arrays']", "[]"}

\* C12: load_array_types on a file whose contents do not parse as the expected
\* literal mapping (syntactically invalid text, text that is valid syntax but
\* not a literal, or a literal that is not a mapping) raises no error to the
\* caller and leaves the array-type registry unchanged.
C12_LoadAbsorbsErrors ==
  [][(pc = "eval" /\ read_text \in NotMappings)
     => outcome' = "returned" /\ array_types' = array_types]_vars

\* C13: across any sequence of extractor operations (extract_file_objects,
\* extract_components, register_array_types, add_array_types,
\* load_array_types), the array-type registry only grows: no name once present
\* is ever removed, and the five seeded vector type names are members in
\* every reachable state.
C13_RegistryOnlyGrows ==
  /\ [](StandardArrayTypes \subseteq array_types)
  /\ [][array_types \subseteq array_types']_vars

\* Names were added to the seeded registry in the course of two calls.
C13_Witness ==
  /\ calls >= 2
  /\ op = "idle" /\ outcome = "returned"
  /\ usage = "registry"
  /\ {"a", "b", "C"} \subseteq array_types
  /\ StandardArrayTypes \subseteq array_types

\* The lexer state in which the declaration that unit i of the text belongs
\* to began: package between "package ... is" and "end package", else root.
StateOfDeclaration(i) ==
  LET at == LastIndexOf(SubSeq(text, 1, i - 1), {"package_is", "end_package"})
  IN IF at # 0 /\ text[at].k = "package_is" THEN "package" ELSE "root"

\* C14: under the grammar table, for every sequence of rule applications
\* starting from the stack [root], the state stack is never emptied (root
\* stays at the bottom and no pop directive removes more levels than were
\* pushed), and every closing rule returns to the state that opened the
\* construct: end_generic and end_port leave component on top, and
\* end_subprogram and end_component leave on top the state (root or package)
\* in which the declaration began.
C14_StackDiscipline ==
  /\ stack # <<>>
  /\ stack[1] = "root"
  /\ \A i \in 2..Len(stack) : stack[i] # "root"
  /\ (JustFired("end_generic") \/ JustFired("end_port"))
       => /\ Top = "component"
          /\ Len(stack) = IF StateOfDeclaration(Len(text)) = "root" THEN 2 ELSE 3
  /\ (JustFired("end_subprogram") \/ JustFired("end_component"))
       => /\ Top = StateOfDeclaration(Len(text))
          /\ Len(stack) = IF Top = "root" THEN 1 ELSE 2

\* A function with a parameter list, declared in a package, was closed by a
\* rule that pops two levels, back to the package state.
C14_Witness ==
  /\ JustFired("end_subprogram")
  /\ text[1].k = "package_is"
  /\ Last(text).k = "rp_return_semi"
  /\ stack = <<"root", "package">>

\* Object o carries exactly the buffered metacomments ms as its description.
\* A package record has no description to carry them.
Attached(o, ms) ==
  IF o.kind = "package" THEN ms = <<>> ELSE o.desc = ms

\* C15: every metacomment buffered while no attachment target exists is
\* attached to the description of the very next object emitted, whatever its
\* kind (package, type, subtype, constant, function, procedure, component),
\* and to no other object: each emission hands the whole buffer to the
\* emitted object and leaves the buffer empty.
C15_BufferGoesToNextObject ==
  [][Len(objects') = Len(objects) + 1
       => /\ Attached(Last(objects'), metacomments)
          /\ metacomments' = <<>>]_vars

\* C16: once an object has been appended to the output sequence, no later
\* event changes it or any Parameter it contains: whenever a later event
\* writes to the metacomment-attachment target or to the generic and port
\* accumulators, the lists written are not those of an emitted component,
\* and the target is not one of its Parameters.
C16_EmittedObjectsFrozen ==
  /\ [][\A i \in DOMAIN objects :
          i \in DOMAIN objects' /\ objects'[i] = objects[i]]_vars
  /\ [][(generics' # generics \/ ports' # ports)
          => (shared = 0 \/ shared' = 0)]_vars
  /\ [](shared # 0 => last_item = NoItem)

\* A component was emitted, and a later component declaration has since
\* given its own port a type and a description.
C16_Witness ==
  /\ Len(objects) = 2
  /\ objects[2].kind = "component"
  /\ Len(objects[2].ports) = 1
  /\ objects[2].ports[1].name = "a"
  /\ objects[2].ports[1].desc = None
  /\ Len(ports) = 1
  /\ ports[1].name = "b"
  /\ JustFired("metacomment")
  /\ ports[1].desc = " m2"

\* end_subprogram saw the kind and the name set by the event that opened the
\* declaration it closes.
SubprogramStateSet ==
  JustFired("end_subprogram")
    => LET o == Opener(Len(text))
       IN /\ o # 0
          /\ Last(objects).kind \in {"function", "procedure"}
          /\ Last(objects).kind =
               (IF text[o].k = "procedure_lp" THEN "procedure" ELSE "function")
          /\ Last(objects).name = text[o].g[1]

\* end_component saw the name set by its own component event.
ComponentStateSet ==
  JustFired("end_component")
    => LET o == Opener(Len(text))
       IN /\ o # 0
          /\ text[o].k = "component_is"
          /\ Last(objects).name = text[o].g[1]

\* array_range_end used the start position that port_array_param_type
\* recorded at the opening parenthesis of the range it closes.
RangeStartSet ==
  JustFired("array_range_end")
    => /\ RangeOpen # 0
       /\ array_range_start_pos + 1 = RangeOpen
       /\ Depth(text, RangeOpen) = 0

\* C17: for every event sequence the grammar table can produce, no event
\* handler reads transient state that was never initialised for the current
\* construct: end_subprogram always sees kind in {function, procedure} and
\* the name set by the opening event of the same declaration, end_component
\* always sees the name set by its own component event, array_range_end
\* always follows a port_array_param_type of the same port, and the last
\* generic/port taken as metacomment target by generic_param_type,
\* port_param_type and array_range_end always exists.
C17_TransientStateInitialised ==
  /\ SubprogramStateSet
  /\ ComponentStateSet
  /\ RangeStartSet
  /\ status # "IndexError"

\* register_array_types is at work on the objects of a file that were
\* registered last, with no other write to the registry in between.
SecondPass ==
  /\ pc \in {"for", "while"}
  /\ last_pass.done
  /\ last_pass.objects = reg_objects

\* C18: register_array_types is idempotent: for any registry contents and
\* any object sequence, registering the same objects a second time (as
\* register_files_array_types does for files already registered by
\* extract_file_objects) leaves the array-type registry exactly as it was
\* after the first registration.
C18_RegisterIdempotent ==
  SecondPass => array_types = last_pass.types

\* register_files_array_types is at the end of the second registration of a
\* file that declares a subtype of a subtype of an array type.
C18_Witness ==
  /\ SecondPass
  /\ op = "register_files_array_types"
  /\ Registered
  /\ \E key \in DOMAIN subtypes :
       /\ subtypes[key] \in DOMAIN subtypes
       /\ key \in array_types

\* C19: register_array_types terminates for every finite object sequence:
\* the walk along Subtype base_type links always ends at a known array type
\* or a dead end, including when the links of the registered Subtypes form a
\* cycle (a subtype naming itself, or two subtypes naming each other, as base
\* type).  A walk that ends passes no name twice: it is never back at the
\* subtype it set out from, from where it would go round again for ever.
C19_WalkEnds ==
  ~(pc = "while" /\ sub_v = sub_k)

====
